---- MODULE Spec2Model ----
(***************************************************************************)
(* JobOps: job / task lifecycle, completion gate, equipment ledger,        *)
(* technician dashboard and overdue sweep.                                 *)
(*                                                                         *)
(* The relational store is modelled table by table: users, jobs and tasks  *)
(* are functions from the primary keys of the existing rows to the row,    *)
(* equipment is the set of primary keys of the catalog rows and ledger is  *)
(* the job_task_equipment table in insertion order.  last_pk holds the     *)
(* auto-increment sequence of each table.  Only the columns read or        *)
(* written by the handlers are kept.  Every handler is one action: it      *)
(* computes the HTTP response (resp) and the rows it saves.  The wall      *)
(* clock is the variable now.  The two technician transitions are also     *)
(* modelled query by query, for requests that are served at the same       *)
(* time: inflight holds, for each server worker, the request it is         *)
(* serving and the model instance that request has loaded.                 *)
(***************************************************************************)
EXTENDS Integers, FiniteSets, Sequences, TLC

VARIABLES users, jobs, tasks, equipment, ledger, last_pk, now, resp,
          sweep_streak, inflight

vars == <<users, jobs, tasks, equipment, ledger, last_pk, now, resp,
          sweep_streak, inflight>>

(* ------------------------------ bounds --------------------------------- *)
MaxJobs == 2
MaxTasks == 2
MaxTime == 2
MaxEquipment == 2

(* ------------------------------ domains -------------------------------- *)
\* null=True columns hold NULL; every timestamp is >= 1
NULL == 0
Times == 1..MaxTime

ROLE_CHOICES == {"ADMIN", "TECHNICIAN", "SALES_AGENT"}
JOB_STATUS_CHOICES == {"PENDING", "IN_PROGRESS", "COMPLETED", "CANCELLED"}
TASK_STATUS_CHOICES == {"NOT_STARTED", "IN_PROGRESS", "COMPLETED"}

\* the accounts of the deployment and the role each was created with
Users == {"tech1", "tech2", "admin1", "sales1"}
InitialRole == [u \in Users |->
                  CASE u = "admin1" -> "ADMIN"
                    [] u = "sales1" -> "SALES_AGENT"
                    [] OTHER -> "TECHNICIAN"]

\* status values of request payloads: each endpoint receives the choices of
\* its own model and values outside them (the other model's choices)
StatusInputs == JOB_STATUS_CHOICES \cup TASK_STATUS_CHOICES
Titles == {"survey", "install"}
JobPks == 1..MaxJobs
TaskPks == 1..MaxTasks
EquipmentPks == 1..MaxEquipment

\* the server's workers, each serving one request at a time
Workers == {"w1", "w2"}
\* a worker between requests
Idle == [pc |-> "idle", id |-> NULL, new_status |-> "", row |-> NULL,
         started |-> NULL]

(* ----------------------------- responses ------------------------------- *)
\* grouped_jobs = {"today": [], "upcoming": [], "overdue": [], "unscheduled": []}
EmptyGroups ==
    [today |-> <<>>, upcoming |-> <<>>, overdue |-> <<>>, unscheduled |-> <<>>]

\* The response of the last handler that ran: endpoint, HTTP status, detail
\* text, the pk of the row the request named once that row was found, and
\* the payload fields the handlers fill in (incomplete_tasks, the sweep's
\* counts and timestamp, the dashboard's groups and total).
Response(op, code, detail) ==
    [op |-> op, code |-> code, detail |-> detail, id |-> NULL,
     incomplete |-> {}, marked |-> 0, cleared |-> 0, timestamp |-> NULL,
     grouped_jobs |-> EmptyGroups, total_active_jobs |-> 0]

(* ----------------------------- permissions ----------------------------- *)
IsAdminOrSalesAgent(u) == users[u] \in {"ADMIN", "SALES_AGENT"}

CanManageTasks(u) ==
    IF users[u] = "TECHNICIAN" THEN FALSE
    ELSE users[u] \in {"ADMIN", "SALES_AGENT"}

IsTechnician(u) == users[u] = "TECHNICIAN"

\* JobSerializer.assigned_to: the pk must be in User.objects.filter(role="TECHNICIAN")
TechnicianQueryset == {u \in Users : users[u] = "TECHNICIAN"}

(* ------------------------------- Init ---------------------------------- *)
Init ==
    /\ users = InitialRole
    /\ jobs = <<>>
    /\ tasks = <<>>
    /\ equipment = {}
    /\ ledger = <<>>
    /\ last_pk = [job |-> 0, task |-> 0, equipment |-> 0]
    /\ now = 1
    /\ resp = Response("none", 0, "")
    /\ sweep_streak = 0
    /\ inflight = [w \in Workers |-> Idle]

(* ------------------------------ clock ---------------------------------- *)
Tick ==
    /\ now < MaxTime
    /\ now' = now + 1
    /\ UNCHANGED <<users, jobs, tasks, equipment, ledger, last_pk, resp,
                   sweep_streak, inflight>>

(* --------------------- general (admin / sales) endpoints --------------- *)
\* The general endpoints are modelled for the requests they accept: the
\* permission class and the serializer validation are the guard, and a
\* refused request (403, 400, 404) leaves the store as it is.

\* auto-increment primary keys: a deleted row's key is not given again
NextJobPk == last_pk.job + 1
NextTaskPk == last_pk.task + 1
NextEquipmentPk == last_pk.equipment + 1

\* JobSerializer validation of a write payload
JobPayloadValid(assigned_to, status) ==
    /\ status \in JOB_STATUS_CHOICES
    /\ assigned_to \in TechnicianQueryset

\* variant: the column defaults to True
OverdueDefaultTrue == TRUE

\* Job.overdue = models.BooleanField(default=False)
OverdueDefault == FALSE

\* POST /jobs/ : JobViewSet.create -> JobSerializer.create
JobCreate(u, assigned_to, status, scheduled_date) ==
    /\ NextJobPk \in JobPks
    /\ IsAdminOrSalesAgent(u)
    /\ JobPayloadValid(assigned_to, status)
    /\ jobs' = jobs @@ (NextJobPk :>
                  [status |-> status,
                   scheduled_date |-> scheduled_date,
                   assigned_to |-> assigned_to,
                   overdue |-> OverdueDefault])
    /\ last_pk' = [last_pk EXCEPT !.job = NextJobPk]
    /\ resp' = [Response("job_create", 201, "") EXCEPT !.id = NextJobPk]
    /\ sweep_streak' = 0
    /\ UNCHANGED inflight
    /\ UNCHANGED <<users, tasks, equipment, ledger, now>>

\* PUT/PATCH /jobs/<pk>/ : JobViewSet.update -> JobSerializer.update.
\* overdue is not a serializer field: the handler never assigns it.
JobUpdate(u, j, assigned_to, status, scheduled_date) ==
    /\ IsAdminOrSalesAgent(u)
    /\ j \in DOMAIN jobs
    /\ JobPayloadValid(assigned_to, status)
    /\ jobs' = [jobs EXCEPT ![j] =
                  [@ EXCEPT !.status = status,
                            !.scheduled_date = scheduled_date,
                            !.assigned_to = assigned_to]]
    /\ resp' = [Response("job_update", 200, "") EXCEPT !.id = j]
    /\ sweep_streak' = 0
    /\ UNCHANGED inflight
    /\ UNCHANGED <<users, tasks, equipment, ledger, last_pk, now>>

\* JobTaskSerializer validation of a write payload
TaskPayloadValid(j, status) ==
    /\ status \in TASK_STATUS_CHOICES
    /\ j \in DOMAIN jobs

\* JobTaskEquipmentSerializer validation of one equipment_requirements
\* list: equipment_id is a plain integer, quantity is the model's
\* PositiveIntegerField, whose smallest value is 0
RequirementsValid(equipment_requirements) ==
    \A i \in 1..Len(equipment_requirements) :
        equipment_requirements[i].quantity >= 0

\* variant: the table has no unique_together
InsertAllowedWithoutUnique(lg, t, e) == e \in equipment

\* the constraints an INSERT into job_task_equipment must satisfy: the
\* equipment foreign key and unique_together = ["job_task", "equipment"]
InsertAllowed(lg, t, e) ==
    /\ e \in equipment
    /\ \A i \in 1..Len(lg) : ~(lg[i].job_task = t /\ lg[i].equipment = e)

\* for equipment_req in equipment_requirements:
\*     JobTaskEquipment.objects.create(job_task=..., equipment_id=..., ...)
\* each INSERT commits on its own; the first one the table refuses raises
\* IntegrityError (error names the constraint) and ends the loop
RECURSIVE InsertRequirements(_, _, _)
InsertRequirements(lg, t, equipment_requirements) ==
    IF equipment_requirements = <<>> THEN [ledger |-> lg, error |-> ""]
    ELSE IF ~InsertAllowed(lg, t, Head(equipment_requirements).equipment_id)
    THEN [ledger |-> lg,
          error |-> IF Head(equipment_requirements).equipment_id \in equipment
                    THEN "unique_constraint" ELSE "foreign_key_constraint"]
    ELSE InsertRequirements(
             Append(lg, [job_task |-> t,
                         equipment |-> Head(equipment_requirements).equipment_id,
                         quantity |-> Head(equipment_requirements).quantity]),
             t, Tail(equipment_requirements))

\* JobTaskSerializer.create as a function of the store and the validated
\* payload: the HTTP status and the two tables as the method leaves them.
\* status and completed_at are both writable and stored as given.
TaskSerializerCreate(j, title, status, completed_at, equipment_requirements) ==
    LET created == tasks @@ (NextTaskPk :>
                       [job |-> j,
                        title |-> title,
                        status |-> status,
                        completed_at |-> completed_at])
        inserted == InsertRequirements(ledger, NextTaskPk,
                                       equipment_requirements)
    IN [code |-> IF inserted.error = "" THEN 201 ELSE 500,
        error |-> inserted.error,
        tasks |-> created,
        ledger |-> inserted.ledger]

\* POST /tasks/ : JobTaskViewSet.create -> JobTaskSerializer.create
TaskCreate(u, j, title, status, completed_at, equipment_requirements) ==
    /\ NextTaskPk \in TaskPks
    /\ CanManageTasks(u)
    /\ TaskPayloadValid(j, status)
    /\ RequirementsValid(equipment_requirements)
    /\ LET outcome == TaskSerializerCreate(j, title, status, completed_at,
                                           equipment_requirements)
       IN /\ tasks' = outcome.tasks
          /\ ledger' = outcome.ledger
          /\ resp' = [Response("task_create", outcome.code, outcome.error)
                        EXCEPT !.id = NextTaskPk]
    /\ last_pk' = [last_pk EXCEPT !.task = NextTaskPk]
    /\ sweep_streak' = 0
    /\ UNCHANGED inflight
    /\ UNCHANGED <<users, jobs, equipment, now>>

\* JobTaskSerializer.update: completed_at after the attributes are set;
\* the method stamps a completed task and has no branch that clears
UpdateCompletedAt(status, completed_at, t) ==
    IF status = "COMPLETED" /\ completed_at = NULL THEN t ELSE completed_at

\* variant: the existing requirements are kept
ClearNoRequirement(lg, t) == lg

\* instance.jobtaskequipment_set.all().delete()
ClearRequirements(lg, t) == SelectSeq(lg, LAMBDA row : row.job_task # t)

\* JobTaskSerializer.update as a function of the store and the validated
\* payload; provided says whether the payload carries equipment_requirements
\* and requirements is that list
TaskSerializerUpdate(t, status, completed_at, provided, requirements) ==
    LET saved == [tasks EXCEPT ![t] =
                     [@ EXCEPT !.status = status,
                               !.completed_at =
                                   UpdateCompletedAt(status, completed_at, now)]]
        inserted == IF provided
                    THEN InsertRequirements(ClearRequirements(ledger, t), t,
                                            requirements)
                    ELSE [ledger |-> ledger, error |-> ""]
    IN [code |-> IF inserted.error = "" THEN 200 ELSE 500,
        error |-> inserted.error,
        tasks |-> saved,
        ledger |-> inserted.ledger]

\* PUT/PATCH /tasks/<pk>/ : JobTaskViewSet.update -> JobTaskSerializer.update
TaskUpdate(u, t, status, completed_at, provided, equipment_requirements) ==
    /\ CanManageTasks(u)
    /\ t \in DOMAIN tasks
    /\ status \in TASK_STATUS_CHOICES
    /\ RequirementsValid(equipment_requirements)
    /\ LET outcome == TaskSerializerUpdate(t, status, completed_at, provided,
                                           equipment_requirements)
       IN /\ tasks' = outcome.tasks
          /\ ledger' = outcome.ledger
          /\ resp' = [Response("task_update", outcome.code, outcome.error)
                        EXCEPT !.id = t]
    /\ sweep_streak' = 0
    /\ UNCHANGED inflight
    /\ UNCHANGED <<users, jobs, equipment, last_pk, now>>

\* POST /equipment/ : EquipmentViewSet.create
EquipmentCreate(u) ==
    /\ NextEquipmentPk \in EquipmentPks
    /\ IsAdminOrSalesAgent(u)
    /\ equipment' = equipment \cup {NextEquipmentPk}
    /\ last_pk' = [last_pk EXCEPT !.equipment = NextEquipmentPk]
    /\ resp' = [Response("equipment_create", 201, "")
                  EXCEPT !.id = NextEquipmentPk]
    /\ sweep_streak' = 0
    /\ UNCHANGED inflight
    /\ UNCHANGED <<users, jobs, tasks, ledger, now>>

(* ------------------------------ deletes -------------------------------- *)
\* a table without the rows of the given keys
Without(table, pks) == [pk \in DOMAIN table \ pks |-> table[pk]]

\* variant: the tasks of a deleted job stay
CascadeNoTasks(j) == {}

\* JobTask.job on_delete=CASCADE: the tasks deleted with job j
CascadeTasks(j) == {t \in DOMAIN tasks : tasks[t].job = j}

\* JobTaskEquipment.job_task on_delete=CASCADE: the ledger once the rows of
\* the deleted tasks are gone
CascadeEntries(lg, ts) == SelectSeq(lg, LAMBDA row : row.job_task \notin ts)

\* variant: no row restricts the delete
RestrictedNever(e) == FALSE

\* JobTaskEquipment.equipment on_delete=RESTRICT: some row references e
Restricted(e) == \E i \in 1..Len(ledger) : ledger[i].equipment = e

\* DELETE /jobs/<pk>/ : JobViewSet.destroy
JobDelete(u, j) ==
    /\ IsAdminOrSalesAgent(u)
    /\ j \in DOMAIN jobs
    /\ jobs' = Without(jobs, {j})
    /\ tasks' = Without(tasks, CascadeTasks(j))
    /\ ledger' = CascadeEntries(ledger, CascadeTasks(j))
    /\ resp' = [Response("job_delete", 204, "") EXCEPT !.id = j]
    /\ sweep_streak' = 0
    /\ UNCHANGED inflight
    /\ UNCHANGED <<users, equipment, last_pk, now>>

\* DELETE /tasks/<pk>/ : JobTaskViewSet.destroy
TaskDelete(u, t) ==
    /\ CanManageTasks(u)
    /\ t \in DOMAIN tasks
    /\ tasks' = Without(tasks, {t})
    /\ ledger' = CascadeEntries(ledger, {t})
    /\ resp' = [Response("task_delete", 204, "") EXCEPT !.id = t]
    /\ sweep_streak' = 0
    /\ UNCHANGED inflight
    /\ UNCHANGED <<users, jobs, equipment, last_pk, now>>

\* DELETE /equipment/<pk>/ : EquipmentViewSet.destroy; a restricted delete
\* raises RestrictedError and writes nothing
EquipmentDelete(u, e) ==
    /\ IsAdminOrSalesAgent(u)
    /\ e \in equipment
    /\ IF Restricted(e)
       THEN /\ resp' = [Response("equipment_delete", 500, "restricted")
                          EXCEPT !.id = e]
            /\ UNCHANGED equipment
       ELSE /\ resp' = [Response("equipment_delete", 204, "") EXCEPT !.id = e]
            /\ equipment' = equipment \ {e}
    /\ sweep_streak' = 0
    /\ UNCHANGED inflight
    /\ UNCHANGED <<users, jobs, tasks, ledger, last_pk, now>>

(* ------------------------------- users --------------------------------- *)
IsAdmin(u) == users[u] = "ADMIN"

\* PUT/PATCH /users/<pk>/ : UserViewSet.update -> UserSerializer; role is a
\* ChoiceField over ROLE_CHOICES and no other table is read
UserUpdate(u, target, role) ==
    /\ IsAdmin(u)
    /\ role \in ROLE_CHOICES
    /\ users' = [users EXCEPT ![target] = role]
    /\ resp' = Response("user_update", 200, "")
    /\ sweep_streak' = 0
    /\ UNCHANGED inflight
    /\ UNCHANGED <<jobs, tasks, equipment, ledger, last_pk, now>>

(* ----------------------- technician endpoints -------------------------- *)
\* task.job.assigned_to != user
TaskAssignedTo(t, u) == jobs[tasks[t].job].assigned_to = u

\* variant: any assigned job passes
JobAssignedToAnyone(j, u) == jobs[j].assigned_to \in Users

\* job.assigned_to != user
JobAssignedTo(j, u) == jobs[j].assigned_to = u

\* variant: every request for COMPLETED stamps again
StampOnEveryCompletion(new_status, completed_at, t) ==
    IF new_status = "COMPLETED" THEN t ELSE NULL

\* variant: stamps on completion and never clears
StampOnlyOnCompletion(new_status, completed_at, t) ==
    IF new_status = "COMPLETED" /\ completed_at = NULL THEN t ELSE completed_at

\* the completed_at a task carries after the status assignment
StampCompletedAt(new_status, completed_at, t) ==
    IF new_status = "COMPLETED" /\ completed_at = NULL THEN t
    ELSE IF new_status # "COMPLETED" THEN NULL
    ELSE completed_at

\* variant: the new status is written to every task of the same job
TaskPatchSavedWithSiblings(t, new_status) ==
    [x \in DOMAIN tasks |->
        IF tasks[x].job = tasks[t].job
        THEN [tasks[x] EXCEPT !.status = new_status,
                              !.completed_at =
                                  StampCompletedAt(new_status, @, now)]
        ELSE tasks[x]]

\* task.status = new_status, the stamp, task.save(): the task table after
\* the save, which writes the one row
TaskPatchSaved(t, new_status) ==
    [tasks EXCEPT ![t] =
        [@ EXCEPT !.status = new_status,
                  !.completed_at = StampCompletedAt(new_status, @, now)]]

\* TechnicianTaskUpdateView.patch as a function of the store and the request:
\* the response, and the two tables as the handler leaves them
TaskPatchOutcome(u, t, new_status) ==
    IF ~IsTechnician(u)
    THEN [resp |-> Response("task_patch", 403, "only_technicians"),
          jobs |-> jobs, tasks |-> tasks]
    ELSE IF t \notin DOMAIN tasks
    THEN [resp |-> Response("task_patch", 404, "not_found"),
          jobs |-> jobs, tasks |-> tasks]
    ELSE IF ~TaskAssignedTo(t, u)
    THEN [resp |-> [Response("task_patch", 403, "not_assigned") EXCEPT !.id = t],
          jobs |-> jobs, tasks |-> tasks]
    ELSE IF new_status \notin {"NOT_STARTED", "IN_PROGRESS", "COMPLETED"}
    THEN [resp |-> [Response("task_patch", 400, "invalid_status") EXCEPT !.id = t],
          jobs |-> jobs, tasks |-> tasks]
    ELSE [resp |-> [Response("task_patch", 200, "") EXCEPT !.id = t],
          jobs |-> jobs,
          tasks |-> TaskPatchSaved(t, new_status)]

\* PATCH technician-dashboard/task/<task_id>/update-status/
TechTaskPatch(u, t, new_status) ==
    /\ LET outcome == TaskPatchOutcome(u, t, new_status)
       IN /\ resp' = outcome.resp
          /\ jobs' = outcome.jobs
          /\ tasks' = outcome.tasks
    /\ sweep_streak' = 0
    /\ UNCHANGED inflight
    /\ UNCHANGED <<users, equipment, ledger, last_pk, now>>

\* variant: only tasks that were never started count as incomplete
NotStartedTasks(j) ==
    {t \in DOMAIN tasks : tasks[t].job = j /\ tasks[t].status = "NOT_STARTED"}

\* variant: the query is not restricted to the job's own tasks
IncompleteTasksOfAnyJob(j) ==
    {t \in DOMAIN tasks : tasks[t].status # "COMPLETED"}

\* job.jobtask_set.exclude(status="COMPLETED")
IncompleteTasks(j) ==
    {t \in DOMAIN tasks : tasks[t].job = j /\ tasks[t].status # "COMPLETED"}

\* [{"id": t.id, "title": t.title, "status": t.status} for t in incomplete_tasks]
IncompleteList(j) ==
    {[id |-> t, title |-> tasks[t].title, status |-> tasks[t].status] :
        t \in IncompleteTasks(j)}

\* variant: completion needs at least one completed task
BlockedWithoutCompletedTask(j, new_status) ==
    /\ new_status = "COMPLETED"
    /\ {t \in DOMAIN tasks : tasks[t].job = j /\ tasks[t].status = "COMPLETED"} = {}

\* variant: the gate does not look at the requested status
BlockedWheneverIncomplete(j, new_status) == IncompleteTasks(j) # {}

\* the completion gate: new_status == "COMPLETED" and incomplete_tasks.exists()
CompletionBlocked(j, new_status) ==
    new_status = "COMPLETED" /\ IncompleteTasks(j) # {}

\* TechnicianJobUpdateView.patch as a function of the store and the request:
\* the response, and the two tables as the handler leaves them
JobPatchOutcome(u, j, new_status) ==
    IF ~IsTechnician(u)
    THEN [resp |-> Response("job_patch", 403, "only_technicians"),
          jobs |-> jobs, tasks |-> tasks]
    ELSE IF j \notin DOMAIN jobs
    THEN [resp |-> Response("job_patch", 404, "not_found"),
          jobs |-> jobs, tasks |-> tasks]
    ELSE IF ~JobAssignedTo(j, u)
    THEN [resp |-> [Response("job_patch", 403, "not_assigned") EXCEPT !.id = j],
          jobs |-> jobs, tasks |-> tasks]
    ELSE IF new_status \notin {"PENDING", "IN_PROGRESS", "COMPLETED", "CANCELLED"}
    THEN [resp |-> [Response("job_patch", 400, "invalid_status") EXCEPT !.id = j],
          jobs |-> jobs, tasks |-> tasks]
    ELSE IF CompletionBlocked(j, new_status)
    THEN [resp |-> [Response("job_patch", 400, "incomplete_tasks")
                      EXCEPT !.id = j, !.incomplete = IncompleteList(j)],
          jobs |-> jobs, tasks |-> tasks]
    ELSE [resp |-> [Response("job_patch", 200, "") EXCEPT !.id = j],
          jobs |-> [jobs EXCEPT ![j] = [@ EXCEPT !.status = new_status]],
          tasks |-> tasks]

\* PATCH technician-dashboard/job/<job_id>/update-status/
TechJobPatch(u, j, new_status) ==
    /\ LET outcome == JobPatchOutcome(u, j, new_status)
       IN /\ resp' = outcome.resp
          /\ jobs' = outcome.jobs
          /\ tasks' = outcome.tasks
    /\ sweep_streak' = 0
    /\ UNCHANGED inflight
    /\ UNCHANGED <<users, equipment, ledger, last_pk, now>>

(* ------------- technician endpoints, query by query -------------------- *)
\* The handlers open no transaction and take no lock: each query commits on
\* its own, and the queries of requests served by different workers
\* interleave.  A worker holds the instance it loaded in row.
Serving(w, pc, id, new_status, row) ==
    [inflight EXCEPT ![w] = [pc |-> pc, id |-> id, new_status |-> new_status,
                             row |-> row, started |-> now]]

\* TechnicianTaskUpdateView.patch up to task.save(): the checks, the load of
\* the task and the assignments to the loaded instance
TaskPatchLoad(w, u, t, new_status) ==
    /\ inflight[w].pc = "idle"
    /\ LET refused == TaskPatchOutcome(u, t, new_status).resp
       IN IF refused.code # 200
          THEN resp' = refused /\ UNCHANGED inflight
          ELSE /\ inflight' = Serving(w, "save_task", t, new_status,
                                  [tasks[t] EXCEPT
                                      !.status = new_status,
                                      !.completed_at =
                                          StampCompletedAt(new_status, @, now)])
               /\ UNCHANGED resp
    /\ UNCHANGED <<users, jobs, tasks, equipment, ledger, last_pk, now,
                   sweep_streak>>

\* task.save(): an UPDATE of every column of the row from the loaded instance
TaskPatchSave(w) ==
    /\ inflight[w].pc = "save_task"
    /\ inflight[w].id \in DOMAIN tasks
    /\ tasks' = [tasks EXCEPT ![inflight[w].id] = inflight[w].row]
    /\ resp' = [Response("task_patch", 200, "") EXCEPT !.id = inflight[w].id]
    /\ inflight' = [inflight EXCEPT ![w] = Idle]
    /\ sweep_streak' = 0
    /\ UNCHANGED <<users, jobs, equipment, ledger, last_pk, now>>

\* TechnicianJobUpdateView.patch up to the gate: the role check, the load of
\* the job, the assignee check and the status validation
JobPatchLoad(w, u, j, new_status) ==
    /\ inflight[w].pc = "idle"
    /\ IF ~IsTechnician(u)
       THEN resp' = Response("job_patch", 403, "only_technicians")
            /\ UNCHANGED inflight
       ELSE IF j \notin DOMAIN jobs
       THEN resp' = Response("job_patch", 404, "not_found")
            /\ UNCHANGED inflight
       ELSE IF ~JobAssignedTo(j, u)
       THEN resp' = [Response("job_patch", 403, "not_assigned") EXCEPT !.id = j]
            /\ UNCHANGED inflight
       ELSE IF new_status \notin {"PENDING", "IN_PROGRESS", "COMPLETED", "CANCELLED"}
       THEN resp' = [Response("job_patch", 400, "invalid_status") EXCEPT !.id = j]
            /\ UNCHANGED inflight
       ELSE /\ inflight' = Serving(w, "gate", j, new_status, jobs[j])
            /\ UNCHANGED resp
    /\ UNCHANGED <<users, jobs, tasks, equipment, ledger, last_pk, now,
                   sweep_streak>>

\* the gate: job.jobtask_set.exclude(status="COMPLETED").exists() and the
\* list built from that queryset, both read from the task table as it is now
JobPatchGate(w) ==
    /\ inflight[w].pc = "gate"
    /\ IF CompletionBlocked(inflight[w].id, inflight[w].new_status)
       THEN /\ resp' = [Response("job_patch", 400, "incomplete_tasks")
                          EXCEPT !.id = inflight[w].id,
                                 !.incomplete = IncompleteList(inflight[w].id)]
            /\ inflight' = [inflight EXCEPT ![w] = Idle]
       ELSE /\ inflight' = [inflight EXCEPT ![w].pc = "save_job"]
            /\ UNCHANGED resp
    /\ UNCHANGED <<users, jobs, tasks, equipment, ledger, last_pk, now,
                   sweep_streak>>

\* job.status = new_status; job.save(): an UPDATE of every column of the row
\* from the loaded instance, overdue included
JobPatchSave(w) ==
    /\ inflight[w].pc = "save_job"
    /\ inflight[w].id \in DOMAIN jobs
    /\ jobs' = [jobs EXCEPT ![inflight[w].id] =
                  [inflight[w].row EXCEPT !.status = inflight[w].new_status]]
    /\ resp' = [Response("job_patch", 200, "") EXCEPT !.id = inflight[w].id]
    /\ inflight' = [inflight EXCEPT ![w] = Idle]
    /\ sweep_streak' = 0
    /\ UNCHANGED <<users, tasks, equipment, ledger, last_pk, now>>

(* ------------------------ technician dashboard ------------------------- *)
\* scheduled_date.date() and date.today(): the calendar day of a time, with
\* the times 2d and 2d+1 falling on day d
DateOf(t) == t \div 2

\* Job.objects.filter(assigned_to=user) in Meta.ordering = ["-created_at"]:
\* the assigned jobs with pk <= k, newest first
RECURSIVE AssignedJobs(_, _)
AssignedJobs(u, k) ==
    IF k = 0 THEN <<>>
    ELSE IF k \in DOMAIN jobs /\ jobs[k].assigned_to = u
    THEN <<k>> \o AssignedJobs(u, k - 1)
    ELSE AssignedJobs(u, k - 1)

\* variant: cancelled jobs are skipped as well
SkippedWhenClosed(job) == job.status \in {"COMPLETED", "CANCELLED"}

\* if job.status == "COMPLETED": continue
Skipped(job) == job.status = "COMPLETED"

\* the if / elif chain that picks the group of a job
GroupOf(job, today) ==
    IF job.scheduled_date = NULL THEN "unscheduled"
    ELSE IF DateOf(job.scheduled_date) = today THEN "today"
    ELSE IF DateOf(job.scheduled_date) > today THEN "upcoming"
    ELSE "overdue"

\* the list a group holds after the loop; a job_data entry is stood for by
\* the job's pk
Grouped(js, name, today) ==
    SelectSeq(js, LAMBDA j : ~Skipped(jobs[j]) /\ GroupOf(jobs[j], today) = name)

\* TechnicianDashboardView.get as a function of the store, the clock and the
\* caller
Dashboard(u) ==
    IF ~IsTechnician(u)
    THEN Response("dashboard", 403, "only_technicians")
    ELSE IF AssignedJobs(u, last_pk.job) = <<>>
    THEN Response("dashboard", 200, "no_jobs_assigned")
    ELSE LET js == AssignedJobs(u, last_pk.job)
             grouped_jobs ==
                 [today |-> Grouped(js, "today", DateOf(now)),
                  upcoming |-> Grouped(js, "upcoming", DateOf(now)),
                  overdue |-> Grouped(js, "overdue", DateOf(now)),
                  unscheduled |-> Grouped(js, "unscheduled", DateOf(now))]
         IN [Response("dashboard", 200, "")
               EXCEPT !.grouped_jobs = grouped_jobs,
                      !.total_active_jobs =
                          Len(grouped_jobs.today \o grouped_jobs.upcoming
                              \o grouped_jobs.overdue
                              \o grouped_jobs.unscheduled)]

\* GET technician-dashboard/ : reads only
TechnicianDashboardGet(u) ==
    /\ resp' = Dashboard(u)
    /\ UNCHANGED <<users, jobs, tasks, equipment, ledger, last_pk, now,
                   sweep_streak, inflight>>

(* --------------------------- overdue sweep ----------------------------- *)
\* filter(scheduled_date__lt=t): SQL comparison, never true of a NULL column
ScheduledBefore(job, t) == job.scheduled_date # NULL /\ job.scheduled_date < t

\* variant: the mark query does not filter on overdue=False
MarkMatchesIgnoringFlag(job, t) ==
    /\ job.scheduled_date # NULL /\ job.scheduled_date < t
    /\ job.status \in {"PENDING", "IN_PROGRESS"}

\* variant: the mark query does not filter on status
MarkMatchesAnyStatus(job, t) ==
    /\ job.scheduled_date # NULL /\ job.scheduled_date < t
    /\ job.overdue = FALSE

\* filter(scheduled_date__lt=now, status__in=[...], overdue=False)
MarkMatches(job, t) ==
    /\ ScheduledBefore(job, t)
    /\ job.status \in {"PENDING", "IN_PROGRESS"}
    /\ job.overdue = FALSE

\* variant: plain SQL NOT, which is unknown (no match) on a NULL column
ClearMatchesSqlNull(job, t) ==
    /\ job.overdue = TRUE
    /\ job.scheduled_date # NULL
    /\ ~(job.scheduled_date < t /\ job.status \in {"PENDING", "IN_PROGRESS"})

\* variant: the exclude() is missing, every flagged job is cleared
ClearMatchesAllOverdue(job, t) == job.overdue = TRUE

\* filter(overdue=True).exclude(scheduled_date__lt=now, status__in=[...]):
\* the ORM negates the conjunction and keeps rows whose nullable column is NULL
ClearMatches(job, t) ==
    /\ job.overdue = TRUE
    /\ ~(ScheduledBefore(job, t) /\ job.status \in {"PENDING", "IN_PROGRESS"})

\* overdue_jobs.update(overdue=True) and the row count it returns
MarkPass(js, t) ==
    [j \in DOMAIN js |->
        IF MarkMatches(js[j], t) THEN [js[j] EXCEPT !.overdue = TRUE] ELSE js[j]]
MarkCount(js, t) == Cardinality({j \in DOMAIN js : MarkMatches(js[j], t)})

\* not_overdue_jobs.update(overdue=False) and the row count it returns
ClearPass(js, t) ==
    [j \in DOMAIN js |->
        IF ClearMatches(js[j], t) THEN [js[j] EXCEPT !.overdue = FALSE] ELSE js[j]]
ClearCount(js, t) == Cardinality({j \in DOMAIN js : ClearMatches(js[j], t)})

\* check_overdue_jobs(), run with nothing else touching the job table
CheckOverdueJobs ==
    /\ jobs' = ClearPass(MarkPass(jobs, now), now)
    /\ resp' = [Response("sweep", 200, "")
                  EXCEPT !.marked = MarkCount(jobs, now),
                         !.cleared = ClearCount(MarkPass(jobs, now), now),
                         !.timestamp = now]
    /\ sweep_streak' = IF sweep_streak = 0 THEN 1 ELSE 2
    /\ UNCHANGED inflight
    /\ UNCHANGED <<users, tasks, equipment, ledger, last_pk, now>>

(* --------------------------- specifications ---------------------------- *)
\* scheduled_date values a job payload may carry
ScheduleInputs == {NULL} \cup Times
\* completed_at values a task payload may carry
CompletedAtInputs == {NULL} \cup Times

PatchTaskStatus ==
    \E u \in Users, t \in TaskPks, s \in StatusInputs : TechTaskPatch(u, t, s)

PatchJobStatus ==
    \E u \in Users, j \in JobPks, s \in StatusInputs : TechJobPatch(u, j, s)

(* Job lifecycle and completion gate.  Jobs carry no schedule and the clock *)
(* stands still; a task is created with one title and with the             *)
(* completed_at that matches its status.                                    *)
CreateUnscheduledJob ==
    \E u \in Users, a \in Users, s \in StatusInputs :
        JobCreate(u, a, s, NULL)

UpdateUnscheduledJob ==
    \E u \in Users, j \in JobPks, a \in Users, s \in StatusInputs :
        JobUpdate(u, j, a, s, NULL)

CreateTask ==
    \E u \in Users, j \in JobPks, s \in StatusInputs :
        TaskCreate(u, j, "survey", s, IF s = "COMPLETED" THEN now ELSE NULL,
                   <<>>)

Next ==
    \/ CreateUnscheduledJob
    \/ UpdateUnscheduledJob
    \/ CreateTask
    \/ PatchTaskStatus
    \/ PatchJobStatus

Spec == Init /\ [][Next]_vars

(* The completion gate's report.  Every job is assigned to one technician,  *)
(* tasks are created with any title and status, and only the technician    *)
(* job endpoint is called.                                                  *)
CreateJobForTech1 ==
    \E u \in Users, s \in StatusInputs : JobCreate(u, "tech1", s, NULL)

CreateTitledTask ==
    \E u \in Users, j \in JobPks, title \in Titles, s \in StatusInputs :
        TaskCreate(u, j, title, s, IF s = "COMPLETED" THEN now ELSE NULL,
                   <<>>)

NextGate ==
    \/ CreateJobForTech1
    \/ CreateTitledTask
    \/ PatchJobStatus

SpecGate == Init /\ [][NextGate]_vars

(* Task lifecycle.  Jobs are created PENDING and only assigned; a task is   *)
(* created with any status and any completed_at, its status is rewritten   *)
(* through either endpoint, and the clock advances.                         *)
CreatePendingJob ==
    \E u \in Users, a \in Users : JobCreate(u, a, "PENDING", NULL)

CreateTaskAnyStamp ==
    \E u \in Users, j \in JobPks, s \in StatusInputs, c \in CompletedAtInputs :
        TaskCreate(u, j, "survey", s, c, <<>>)

\* PATCH /tasks/<pk>/ {"status": s}: the other attributes stay as stored
UpdateTaskStatus ==
    \E u \in Users, t \in DOMAIN tasks, s \in StatusInputs :
        TaskUpdate(u, t, s, tasks[t].completed_at, FALSE, <<>>)

NextTask ==
    \/ CreatePendingJob
    \/ CreateTaskAnyStamp
    \/ PatchTaskStatus
    \/ UpdateTaskStatus
    \/ Tick

SpecTask == Init /\ [][NextTask]_vars

(* Scheduled jobs under the daily sweep: the job table, the clock and the   *)
(* sweep; no job has tasks, so the completion gate never blocks.            *)
CreateJob ==
    \E u \in Users, a \in Users, s \in StatusInputs, d \in ScheduleInputs :
        JobCreate(u, a, s, d)

\* a partial update of status and scheduled_date; assigned_to is not sent
UpdateJob ==
    \E u \in Users, j \in DOMAIN jobs, s \in StatusInputs, d \in ScheduleInputs :
        JobUpdate(u, j, jobs[j].assigned_to, s, d)

NextSweep ==
    \/ CreateJob
    \/ UpdateJob
    \/ PatchJobStatus
    \/ Tick
    \/ CheckOverdueJobs

SpecSweep == Init /\ [][NextSweep]_vars

(* The equipment ledger.  One technician's PENDING jobs, the catalog, and   *)
(* tasks of the first job created and rewritten with requirement lists     *)
(* that name catalog rows, a missing row, repeated rows and quantities     *)
(* around zero.                                                             *)
MaxRequirements == 2
EquipmentIdInputs == 1..(MaxEquipment + 1)
QuantityInputs == {-1, 0, 1, 2}
\* the callers of the ledger endpoints: one who may manage tasks, one who may not
LedgerCallers == {"admin1", "tech1"}
RequirementInputs ==
    [equipment_id : EquipmentIdInputs, quantity : QuantityInputs]
RequirementLists ==
    UNION {[1..n -> RequirementInputs] : n \in 0..MaxRequirements}

CreateJobOfTech1 ==
    \E u \in LedgerCallers : JobCreate(u, "tech1", "PENDING", NULL)

AddEquipment == \E u \in LedgerCallers : EquipmentCreate(u)

CreateTaskWithRequirements ==
    \E u \in LedgerCallers, L \in RequirementLists :
        TaskCreate(u, 1, "survey", "NOT_STARTED", NULL, L)

\* PATCH /tasks/<pk>/ {"status": "IN_PROGRESS", "equipment_requirements": L}
ReplaceRequirements ==
    \E u \in LedgerCallers, t \in DOMAIN tasks, L \in RequirementLists :
        TaskUpdate(u, t, "IN_PROGRESS", tasks[t].completed_at, TRUE, L)

NextLedger ==
    \/ CreateJobOfTech1
    \/ AddEquipment
    \/ CreateTaskWithRequirements
    \/ ReplaceRequirements

SpecLedger == Init /\ [][NextLedger]_vars

(* The technician dashboard.  Jobs are created with any assignee, status    *)
(* and schedule, the clock advances, and every account asks for its        *)
(* dashboard.                                                               *)
GetDashboard == \E u \in Users : TechnicianDashboardGet(u)

NextDashboard ==
    \/ CreateJob
    \/ Tick
    \/ GetDashboard

SpecDashboard == Init /\ [][NextDashboard]_vars

(* Assignment and roles.  Jobs are created and reassigned, and an admin     *)
(* edits the role of any account.                                           *)
ReassignJob ==
    \E u \in Users, j \in DOMAIN jobs, a \in Users :
        JobUpdate(u, j, a, jobs[j].status, jobs[j].scheduled_date)

EditRole ==
    \E u \in Users, target \in Users, role \in ROLE_CHOICES :
        UserUpdate(u, target, role)

NextUsers ==
    \/ CreatePendingJob
    \/ ReassignJob
    \/ EditRole

SpecUsers == Init /\ [][NextUsers]_vars

(* Deletes.  Jobs, catalog rows and tasks with requirement lists are        *)
(* created, and any of them is deleted.                                     *)
CreateTaskOfAnyJob ==
    \E u \in LedgerCallers, j \in JobPks, L \in RequirementLists :
        TaskCreate(u, j, "survey", "NOT_STARTED", NULL, L)

DeleteJob == \E u \in LedgerCallers, j \in JobPks : JobDelete(u, j)

DeleteTask == \E u \in LedgerCallers, t \in TaskPks : TaskDelete(u, t)

DeleteEquipment ==
    \E u \in LedgerCallers, e \in EquipmentPks : EquipmentDelete(u, e)

NextDelete ==
    \/ CreateJobOfTech1
    \/ AddEquipment
    \/ CreateTaskOfAnyJob
    \/ DeleteJob
    \/ DeleteTask
    \/ DeleteEquipment

SpecDelete == Init /\ [][NextDelete]_vars

(* Requests served at the same time.  One job of tech1 and its tasks; the   *)
(* first worker serves job transitions, the second task transitions.       *)
CreateTheJob ==
    /\ last_pk.job = 0
    /\ JobCreate("admin1", "tech1", "IN_PROGRESS", NULL)

CreateTaskOfTheJob ==
    \E s \in TASK_STATUS_CHOICES :
        TaskCreate("admin1", 1, "survey", s,
                   IF s = "COMPLETED" THEN now ELSE NULL, <<>>)

LoadJobPatch ==
    \E u \in {"tech1", "tech2"}, s \in JOB_STATUS_CHOICES :
        JobPatchLoad("w1", u, 1, s)

LoadTaskPatch ==
    \E u \in {"tech1", "tech2"}, t \in TaskPks, s \in TASK_STATUS_CHOICES :
        TaskPatchLoad("w2", u, t, s)

NextGateRace ==
    \/ CreateTheJob
    \/ CreateTaskOfTheJob
    \/ LoadJobPatch
    \/ JobPatchGate("w1")
    \/ JobPatchSave("w1")
    \/ LoadTaskPatch
    \/ TaskPatchSave("w2")

SpecGateRace == Init /\ [][NextGateRace]_vars

(* Two task transitions served at the same time, by either worker, while   *)
(* the clock advances.                                                      *)
LoadTaskPatchAnyWorker ==
    \E w \in Workers, t \in TaskPks, s \in TASK_STATUS_CHOICES :
        TaskPatchLoad(w, "tech1", t, s)

SaveTaskPatchAnyWorker == \E w \in Workers : TaskPatchSave(w)

NextTaskRace ==
    \/ CreateTheJob
    \/ CreateTaskOfTheJob
    \/ LoadTaskPatchAnyWorker
    \/ SaveTaskPatchAnyWorker
    \/ Tick

SpecTaskRace == Init /\ [][NextTaskRace]_vars

(* A job transition served while the sweep runs: one scheduled job of       *)
(* tech1, the clock, and the beat schedule that keeps starting the sweep.   *)
CreateTheScheduledJob ==
    /\ last_pk.job = 0
    /\ \E s \in JOB_STATUS_CHOICES, d \in ScheduleInputs :
          JobCreate("admin1", "tech1", s, d)

NextSweepRace ==
    \/ CreateTheScheduledJob
    \/ LoadJobPatch
    \/ JobPatchGate("w1")
    \/ JobPatchSave("w1")
    \/ Tick
    \/ CheckOverdueJobs

SpecSweepRace ==
    Init /\ [][NextSweepRace]_vars /\ WF_vars(CheckOverdueJobs)

(* ------------------------------ claims --------------------------------- *)
\* what the claims mean by their words, stated on the rows themselves
ActiveStatuses == {"PENDING", "IN_PROGRESS"}
TasksOfJob(j) == {t \in DOMAIN tasks : tasks[t].job = j}
SomeTaskNotCompleted(j) ==
    \E t \in TasksOfJob(j) : tasks[t].status \in {"NOT_STARTED", "IN_PROGRESS"}
DueBefore(j, t) ==
    /\ jobs[j].scheduled_date \in Times
    /\ jobs[j].scheduled_date < t
    /\ jobs[j].status \in ActiveStatuses

\* C1: after a successful technician task-status transition, the task's
\* completed_at is non-null exactly when its status is COMPLETED.
C1_StampIffCompleted ==
    (resp.op = "task_patch" /\ resp.code = 200) =>
        ((tasks[resp.id].completed_at # NULL) <=>
         (tasks[resp.id].status = "COMPLETED"))

\* C1 witness: a task patched to COMPLETED that kept a stamp written at
\* creation (a stamp later than the clock was never set by the handler).
C1_Witness ==
    /\ resp.op = "task_patch" /\ resp.code = 200
    /\ tasks[resp.id].status = "COMPLETED"
    /\ tasks[resp.id].completed_at > now

\* C2: a technician job transition to COMPLETED requested while some task of
\* the job is not COMPLETED is answered with an error and leaves the job table
\* and the task table as they were.
C2_GateRejectsUnchanged ==
    \A u \in Users, j \in DOMAIN jobs :
        SomeTaskNotCompleted(j) =>
            /\ JobPatchOutcome(u, j, "COMPLETED").resp.code \in {400, 403}
            /\ JobPatchOutcome(u, j, "COMPLETED").jobs = jobs
            /\ JobPatchOutcome(u, j, "COMPLETED").tasks = tasks

\* C2 witness: the gate has just refused the assigned technician.
C2_Witness ==
    /\ resp.op = "job_patch" /\ resp.code = 400
    /\ resp.detail = "incomplete_tasks"
    /\ jobs[resp.id].status # "COMPLETED"
    /\ SomeTaskNotCompleted(resp.id)

\* C3: whichever endpoint has just written COMPLETED as a job's status (the
\* technician endpoint, or the general job create / update), every task of
\* that job is COMPLETED.
C3_EveryCompletionGated ==
    (/\ resp.op \in {"job_patch", "job_update", "job_create"}
     /\ resp.code \in {200, 201}
     /\ jobs[resp.id].status = "COMPLETED")
    => ~SomeTaskNotCompleted(resp.id)

\* C4: the incomplete_tasks list of a refused completion is exactly the id,
\* title and status of every task of the requested job that is not COMPLETED.
C4_IncompleteListExact ==
    (resp.op = "job_patch" /\ resp.detail = "incomplete_tasks") =>
        resp.incomplete =
            {[id |-> t, title |-> tasks[t].title, status |-> tasks[t].status] :
                t \in {x \in TasksOfJob(resp.id) : tasks[x].status # "COMPLETED"}}

\* C4 witness: a refusal listing one task while another job holds a task
\* that is not COMPLETED either.
C4_Witness ==
    /\ resp.op = "job_patch" /\ resp.detail = "incomplete_tasks"
    /\ Cardinality(resp.incomplete) = 1
    /\ \E t \in DOMAIN tasks :
          tasks[t].job # resp.id /\ tasks[t].status # "COMPLETED"

\* C5: the assigned technician's transition to COMPLETED of a job with no
\* task, or with only COMPLETED tasks, succeeds whatever the job's status was
\* and leaves the job COMPLETED.
C5_CompletableJobCompletes ==
    \A u \in Users, j \in DOMAIN jobs :
        (/\ users[u] = "TECHNICIAN"
         /\ jobs[j].assigned_to = u
         /\ ~SomeTaskNotCompleted(j))
        => (/\ JobPatchOutcome(u, j, "COMPLETED").resp.code = 200
            /\ JobPatchOutcome(u, j, "COMPLETED").jobs[j].status = "COMPLETED")

\* C5 witness: a job without tasks was just completed by its technician, and
\* another job with tasks, all COMPLETED, has been completed too.
C5_Witness ==
    /\ resp.op = "job_patch" /\ resp.code = 200
    /\ jobs[resp.id].status = "COMPLETED"
    /\ TasksOfJob(resp.id) = {}
    /\ \E j \in DOMAIN jobs :
          /\ j # resp.id
          /\ jobs[j].status = "COMPLETED"
          /\ TasksOfJob(j) # {}
          /\ ~SomeTaskNotCompleted(j)

\* C6: every job or task transition requested by a technician who is not the
\* job's assignee is answered 403, whatever the requested status, and leaves
\* the job table and the task table as they were.
C6_NonAssigneeForbidden ==
    \A u \in Users, s \in StatusInputs :
        users[u] = "TECHNICIAN" =>
            /\ \A j \in DOMAIN jobs :
                  jobs[j].assigned_to # u =>
                      /\ JobPatchOutcome(u, j, s).resp.code = 403
                      /\ JobPatchOutcome(u, j, s).jobs = jobs
                      /\ JobPatchOutcome(u, j, s).tasks = tasks
            /\ \A t \in DOMAIN tasks :
                  jobs[tasks[t].job].assigned_to # u =>
                      /\ TaskPatchOutcome(u, t, s).resp.code = 403
                      /\ TaskPatchOutcome(u, t, s).jobs = jobs
                      /\ TaskPatchOutcome(u, t, s).tasks = tasks

\* C6 witness: a technician was refused on a task of another technician's
\* job while that job is still open and the task is not completed.
C6_Witness ==
    /\ resp.op = "task_patch" /\ resp.code = 403
    /\ resp.detail = "not_assigned"
    /\ tasks[resp.id].status = "IN_PROGRESS"
    /\ jobs[tasks[resp.id].job].status = "IN_PROGRESS"

\* C7: right after a sweep run at time resp.timestamp, a job is flagged
\* overdue exactly when its scheduled_date is set and earlier than that time
\* and its status is PENDING or IN_PROGRESS.
C7_SweepSetsFlagExactly ==
    resp.op = "sweep" =>
        \A j \in DOMAIN jobs : jobs[j].overdue <=> DueBefore(j, resp.timestamp)

\* C7 witness: one run marked a job and cleared another, the cleared one
\* being an active job without a scheduled_date.
C7_Witness ==
    /\ resp.op = "sweep" /\ resp.marked = 1 /\ resp.cleared = 1
    /\ \E j \in DOMAIN jobs :
          jobs[j].scheduled_date = NULL /\ jobs[j].status \in ActiveStatuses

\* C8 (as claimed): a sweep run that directly follows a sweep run, each
\* reading the clock when it starts, changes no job and reports zero counts.
C8_SecondRunChangesNothing ==
    [][(resp.op = "sweep" /\ CheckOverdueJobs)
          => (resp'.marked = 0 /\ resp'.cleared = 0 /\ jobs' = jobs)]_vars

\* C8 (amended): a sweep run that directly follows a sweep run changes no job
\* and reports zero counts, provided no PENDING or IN_PROGRESS job has a
\* scheduled_date at or after the first run's time and before the second's.
C8_SecondRunIdleUnlessJobFellDue ==
    [][(/\ resp.op = "sweep"
        /\ CheckOverdueJobs
        /\ \A j \in DOMAIN jobs :
              ~(DueBefore(j, now) /\ jobs[j].scheduled_date >= resp.timestamp))
          => (resp'.marked = 0 /\ resp'.cleared = 0 /\ jobs' = jobs)]_vars

\* C8 witness: a second run in a row, later than the first, found nothing to
\* do although a job is flagged and another is scheduled.
C8_Witness ==
    /\ sweep_streak = 2 /\ resp.op = "sweep"
    /\ resp.marked = 0 /\ resp.cleared = 0
    /\ resp.timestamp > 1
    /\ \E j \in DOMAIN jobs : jobs[j].overdue
    /\ \E j \in DOMAIN jobs : ~jobs[j].overdue /\ jobs[j].scheduled_date # NULL

\* C9: for every time t, no job matches both sweep queries, no job changed by
\* one pass matches the other query afterwards, and the two orders of the
\* passes give the same flags and the same two counts.
C9_PassesCommute ==
    \A t \in Times :
        /\ \A j \in DOMAIN jobs :
              /\ ~(MarkMatches(jobs[j], t) /\ ClearMatches(jobs[j], t))
              /\ MarkMatches(jobs[j], t) => ~ClearMatches(MarkPass(jobs, t)[j], t)
              /\ ClearMatches(jobs[j], t) => ~MarkMatches(ClearPass(jobs, t)[j], t)
        /\ ClearPass(MarkPass(jobs, t), t) = MarkPass(ClearPass(jobs, t), t)
        /\ MarkCount(ClearPass(jobs, t), t) = MarkCount(jobs, t)
        /\ ClearCount(MarkPass(jobs, t), t) = ClearCount(jobs, t)

\* C9 witness: a job table on which both passes have work at the current
\* time, one job to mark and one to clear.
C9_Witness ==
    \E j1, j2 \in DOMAIN jobs :
        MarkMatches(jobs[j1], now) /\ ClearMatches(jobs[j2], now)

\* C10 (as claimed): in every reachable state a job flagged overdue has a
\* scheduled_date in the past and status PENDING or IN_PROGRESS.
C10_FlagImpliesDue ==
    \A j \in DOMAIN jobs : jobs[j].overdue => DueBefore(j, now)

\* C10 (amended): the flag turns true only in a sweep run and only on a job
\* that at that run has a scheduled_date in the past and status PENDING or
\* IN_PROGRESS; a later edit or transition leaves it set until the next run.
C10_FlagRaisedOnlyWhenDue ==
    [][\A j \in DOMAIN jobs' :
          (jobs'[j].overdue /\ ~(j \in DOMAIN jobs /\ jobs[j].overdue))
          => (/\ resp'.op = "sweep"
              /\ j \in DOMAIN jobs
              /\ DueBefore(j, now)
              /\ jobs'[j] = [jobs[j] EXCEPT !.overdue = TRUE])]_vars

\* C10 witness: a sweep has flagged every job of a full table.
C10_Witness ==
    /\ resp.op = "sweep" /\ resp.marked = MaxJobs /\ resp.cleared = 0
    /\ \A j \in DOMAIN jobs : jobs[j].overdue

\* C11: in every reachable state, whichever endpoint wrote the task (the
\* technician transition, the general create, the general update), a task's
\* completed_at is non-null exactly when its status is COMPLETED.
C11_CompletedAtIffCompleted ==
    \A t \in DOMAIN tasks :
        (tasks[t].completed_at # NULL) <=> (tasks[t].status = "COMPLETED")

\* C12: a successful technician task-status transition leaves every job as
\* it was, leaves every other task as it was, and changes nothing of the
\* targeted task but its status and completed_at.
C12_TaskPatchFrame ==
    [][(resp'.op = "task_patch" /\ resp'.code = 200) =>
          /\ jobs' = jobs
          /\ DOMAIN tasks' = DOMAIN tasks
          /\ \A x \in DOMAIN tasks : x # resp'.id => tasks'[x] = tasks[x]
          /\ tasks'[resp'.id].job = tasks[resp'.id].job
          /\ tasks'[resp'.id].title = tasks[resp'.id].title]_vars

\* C12 witness: the last incomplete task of a job with two tasks was just
\* completed and the job is still IN_PROGRESS.
C12_Witness ==
    /\ resp.op = "task_patch" /\ resp.code = 200
    /\ tasks[resp.id].status = "COMPLETED"
    /\ Cardinality(TasksOfJob(tasks[resp.id].job)) = 2
    /\ ~SomeTaskNotCompleted(tasks[resp.id].job)
    /\ jobs[tasks[resp.id].job].status = "IN_PROGRESS"

\* C13: for the assigned technician a job transition to PENDING, IN_PROGRESS
\* or CANCELLED succeeds whatever the job's status and its tasks' statuses
\* are, and leaves the job with the requested status.
C13_OtherTransitionsUngated ==
    \A u \in Users, j \in DOMAIN jobs :
        (users[u] = "TECHNICIAN" /\ jobs[j].assigned_to = u) =>
            \A s \in {"PENDING", "IN_PROGRESS", "CANCELLED"} :
                /\ JobPatchOutcome(u, j, s).resp.code = 200
                /\ JobPatchOutcome(u, j, s).jobs[j].status = s
                /\ JobPatchOutcome(u, j, s).jobs =
                       [jobs EXCEPT ![j] = [@ EXCEPT !.status = s]]

\* C13 witness: a technician has just reopened as PENDING a job that has a
\* task not yet completed, while their other job is COMPLETED.
C13_Witness ==
    /\ resp.op = "job_patch" /\ resp.code = 200
    /\ jobs[resp.id].status = "PENDING"
    /\ SomeTaskNotCompleted(resp.id)
    /\ \E j \in DOMAIN jobs :
          /\ j # resp.id
          /\ jobs[j].assigned_to = jobs[resp.id].assigned_to
          /\ jobs[j].status = "COMPLETED"

\* the ledger rows of one task, in insertion order
EntriesOf(lg, t) == SelectSeq(lg, LAMBDA row : row.job_task = t)
\* the rows a requirement list asks for
RowsOf(t, L) ==
    [i \in 1..Len(L) |->
        [job_task |-> t, equipment |-> L[i].equipment_id,
         quantity |-> L[i].quantity]]

\* C14: whatever rows the task had, a task update carrying the requirement
\* list L that succeeds leaves the task with exactly the rows of L and
\* leaves the rows of every other task as they were.
C14_ReplaceLeavesExactlyL ==
    \A t \in DOMAIN tasks, L \in RequirementLists :
        RequirementsValid(L) =>
            LET outcome == TaskSerializerUpdate(t, tasks[t].status,
                               tasks[t].completed_at, TRUE, L)
            IN outcome.code = 200 =>
                  /\ EntriesOf(outcome.ledger, t) = RowsOf(t, L)
                  /\ \A x \in DOMAIN tasks \ {t} :
                        EntriesOf(outcome.ledger, x) = EntriesOf(ledger, x)

\* C14 witness: the older task's requirements were just replaced by two
\* rows, which now follow the rows of the newer task in the table.
C14_Witness ==
    /\ resp.op = "task_update" /\ resp.code = 200 /\ resp.id = 1
    /\ Len(ledger) = 3
    /\ ledger[1].job_task = 2
    /\ ledger[2].job_task = 1 /\ ledger[3].job_task = 1

\* C15: in every reachable state no two rows of the ledger have the same
\* task and the same equipment.
C15_OneEntryPerPair ==
    \A i, k \in 1..Len(ledger) :
        i # k => ~(/\ ledger[i].job_task = ledger[k].job_task
                   /\ ledger[i].equipment = ledger[k].equipment)

\* C15 witness: a list naming the same equipment twice was just refused by
\* the unique constraint.
C15_Witness ==
    /\ resp.op \in {"task_create", "task_update"}
    /\ resp.code = 500 /\ resp.detail = "unique_constraint"
    /\ Len(EntriesOf(ledger, resp.id)) = 1

\* C16: a task creation or a task update that fails leaves the task table
\* and the ledger as they were before the call.
C16_FailureLeavesNoPartialState ==
    [][(resp'.op \in {"task_create", "task_update"} /\ resp'.code = 500)
          => (tasks' = tasks /\ ledger' = ledger)]_vars

\* C17: in every reachable state every ledger row has quantity >= 1.
C17_QuantityAtLeastOne ==
    \A i \in 1..Len(ledger) : ledger[i].quantity >= 1

\* the group the claim assigns to a job on a given day
GroupNames == {"today", "upcoming", "overdue", "unscheduled"}
ExpectedGroup(j, day) ==
    CASE jobs[j].scheduled_date = NULL -> "unscheduled"
      [] jobs[j].scheduled_date # NULL /\ DateOf(jobs[j].scheduled_date) = day
           -> "today"
      [] jobs[j].scheduled_date # NULL /\ DateOf(jobs[j].scheduled_date) > day
           -> "upcoming"
      [] OTHER -> "overdue"
Occurrences(seq, x) == Cardinality({i \in 1..Len(seq) : seq[i] = x})

\* C18: for a technician with at least one assigned job the dashboard lists
\* each assigned job that is not COMPLETED once, in the group of its
\* scheduled date, lists no other job anywhere, and total_active_jobs is the
\* sum of the four group sizes.
C18_DashboardGroups ==
    \A u \in Users :
        (users[u] = "TECHNICIAN" /\ \E j \in DOMAIN jobs : jobs[j].assigned_to = u)
        => LET d == Dashboard(u)
           IN /\ d.code = 200
              /\ \A j \in JobPks, name \in GroupNames :
                    Occurrences(d.grouped_jobs[name], j) =
                        IF /\ j \in DOMAIN jobs
                           /\ jobs[j].assigned_to = u
                           /\ jobs[j].status # "COMPLETED"
                           /\ ExpectedGroup(j, DateOf(now)) = name
                        THEN 1 ELSE 0
              /\ d.total_active_jobs =
                    Len(d.grouped_jobs.today) + Len(d.grouped_jobs.upcoming)
                    + Len(d.grouped_jobs.overdue)
                    + Len(d.grouped_jobs.unscheduled)

\* C18 witness: a dashboard just served lists one CANCELLED job as overdue
\* and nothing else, the technician's other job being COMPLETED.
C18_Witness ==
    /\ resp.op = "dashboard" /\ resp.code = 200
    /\ resp.total_active_jobs = 1
    /\ Len(resp.grouped_jobs.overdue) = 1
    /\ jobs[resp.grouped_jobs.overdue[1]].status = "CANCELLED"
    /\ resp = Dashboard(jobs[resp.grouped_jobs.overdue[1]].assigned_to)
    /\ \E j \in DOMAIN jobs :
          /\ jobs[j].assigned_to = jobs[resp.grouped_jobs.overdue[1]].assigned_to
          /\ jobs[j].status = "COMPLETED"

\* C19: in every reachable state the assignee of every job is an account
\* whose role is TECHNICIAN.
C19_AssigneeIsTechnician ==
    \A j \in DOMAIN jobs : users[jobs[j].assigned_to] = "TECHNICIAN"

\* every reference of the store names an existing row
NoReferenceDangles ==
    /\ \A t \in DOMAIN tasks : tasks[t].job \in DOMAIN jobs
    /\ \A i \in 1..Len(ledger) :
          /\ ledger[i].job_task \in DOMAIN tasks
          /\ ledger[i].equipment \in equipment

\* C20: after every create or delete no reference dangles; a job delete
\* removes the job, its tasks and their ledger rows and nothing else; a task
\* delete removes the task and its ledger rows and nothing else; a delete of
\* an equipment some ledger row references is refused and changes nothing.
C20_DeletesLeaveNoDanglingReference ==
    [][/\ NoReferenceDangles'
       /\ resp'.op = "job_delete" =>
             /\ DOMAIN jobs' = DOMAIN jobs \ {resp'.id}
             /\ DOMAIN tasks' =
                   {t \in DOMAIN tasks : tasks[t].job # resp'.id}
             /\ ledger' = SelectSeq(ledger,
                              LAMBDA row : tasks[row.job_task].job # resp'.id)
             /\ equipment' = equipment
       /\ resp'.op = "task_delete" =>
             /\ jobs' = jobs
             /\ DOMAIN tasks' = DOMAIN tasks \ {resp'.id}
             /\ ledger' = SelectSeq(ledger,
                              LAMBDA row : row.job_task # resp'.id)
             /\ equipment' = equipment
       /\ resp'.op = "equipment_delete" =>
             /\ jobs' = jobs /\ tasks' = tasks /\ ledger' = ledger
             /\ IF \E i \in 1..Len(ledger) : ledger[i].equipment = resp'.id
                THEN resp'.code = 500 /\ equipment' = equipment
                ELSE equipment' = equipment \ {resp'.id}]_vars

\* C20 witness: the first job is gone with its task, and the delete of an
\* equipment that the remaining task requires was just refused.
C20_Witness ==
    /\ resp.op = "equipment_delete" /\ resp.code = 500
    /\ last_pk.job = 2 /\ DOMAIN jobs = {2}
    /\ last_pk.task = 2 /\ DOMAIN tasks = {2}
    /\ \E i \in 1..Len(ledger) : ledger[i].equipment = resp.id

\* C21: whenever a technician's request writes COMPLETED as a job's status,
\* every task of that job is COMPLETED at the moment of the write, also when
\* task transitions are served at the same time.
C21_CompletedWrittenOnlyWhenTasksCompleted ==
    [][\A j \in DOMAIN jobs :
          (/\ jobs[j].status # "COMPLETED"
           /\ jobs'[j].status = "COMPLETED"
           /\ resp'.op = "job_patch")
          => ~SomeTaskNotCompleted(j)]_vars

\* C22: a step changes the overdue flag of a job only if it is a run of the
\* sweep, also when the sweep runs between a transition's load and save.
C22_OnlySweepChangesOverdue ==
    [][\A j \in DOMAIN jobs :
          jobs'[j].overdue # jobs[j].overdue => resp'.op = "sweep"]_vars

\* C23: transitions of one task served at the same time leave the row as
\* some order of them, run one after the other, would; stated on the case
\* the claim names: a save that writes COMPLETED over a stored row that is
\* not COMPLETED (the task has left COMPLETED, or never was) carries a stamp
\* taken while the request was served, never a stamp older than the request,
\* which can only have been read from the row before it left COMPLETED.
C23_ConcurrentTransitionsSerializable ==
    [][\A w \in Workers :
          (/\ inflight[w].pc = "save_task"
           /\ inflight'[w].pc = "idle"
           /\ tasks[inflight[w].id].status # "COMPLETED"
           /\ tasks'[inflight[w].id].status = "COMPLETED")
          => /\ tasks'[inflight[w].id].completed_at >= inflight[w].started
             /\ tasks'[inflight[w].id].completed_at <= now]_vars

\* C24: a technician task transition requested again right after it
\* succeeded, with the same target status and at whatever later time, leaves
\* the task as the first request left it (an already COMPLETED task keeps its
\* completed_at); and a task the technician took out of COMPLETED and then
\* completes again is stamped with the time of the second completion, which
\* the clock puts no earlier than the moment it left.
C24_TaskPatchIdempotent ==
    [][(/\ resp.op = "task_patch" /\ resp.code = 200
        /\ resp'.op = "task_patch" /\ resp'.code = 200
        /\ resp'.id = resp.id)
       => /\ tasks'[resp.id].status = tasks[resp.id].status
               => tasks'[resp.id] = tasks[resp.id]
          /\ (/\ tasks[resp.id].status # "COMPLETED"
              /\ tasks'[resp.id].status = "COMPLETED")
               => tasks'[resp.id].completed_at = now]_vars

\* C24 witness: a task completed by its technician at an earlier time, the
\* clock having advanced since, so that the request can be repeated later.
C24_Witness ==
    /\ resp.op = "task_patch" /\ resp.code = 200
    /\ tasks[resp.id].status = "COMPLETED"
    /\ tasks[resp.id].completed_at # NULL
    /\ tasks[resp.id].completed_at < now

\* C25: for every job, (a) once its scheduled_date is in the past and its
\* status is PENDING or IN_PROGRESS, the sweep being run again and again, it
\* is eventually flagged overdue unless it stops being due; (b) a flagged due
\* job stays flagged over every step that leaves its status and
\* scheduled_date as they are; (c) a sweep run that finds the job COMPLETED
\* or CANCELLED leaves it unflagged.
C25_SweepEventuallyFlagsAndClears ==
    /\ \A j \in JobPks :
          (j \in DOMAIN jobs /\ DueBefore(j, now))
            ~> (j \in DOMAIN jobs /\ (jobs[j].overdue \/ ~DueBefore(j, now)))
    /\ [][\A j \in DOMAIN jobs :
             (/\ jobs[j].overdue /\ DueBefore(j, now)
              /\ jobs'[j].status = jobs[j].status
              /\ jobs'[j].scheduled_date = jobs[j].scheduled_date)
             => jobs'[j].overdue]_vars
    /\ [][\A j \in DOMAIN jobs :
             (jobs[j].status \in {"COMPLETED", "CANCELLED"} /\ CheckOverdueJobs)
             => ~jobs'[j].overdue]_vars

====
